---- MODULE Spec2Model ----
(***************************************************************************)
(* A model of pyvista/core/validate/checkers.py: the check_* functions.   *)
(*                                                                         *)
(* Every check is a pure function of its arguments that either returns    *)
(* (outcome "pass") or raises (outcome "TypeError" / "ValueError" with    *)
(* the parts of the message).  The state machine has one action per       *)
(* public check: the action draws the arguments of one call from bounded  *)
(* sets, runs the check as the code runs it, and stores the call and its  *)
(* outcome in the state.  A caller may also keep one object and pass it   *)
(* to several calls, one after the other.                                 *)
(*                                                                         *)
(* Python objects are records of one uniform layout                        *)
(*     [cls, dtype, shape, data, s, items]                                 *)
(*   cls    the exact type of the object ("int", "ndarray", ...)           *)
(*   dtype  the dtype of an ndarray or NumPy scalar ("" otherwise)         *)
(*   shape  the shape of an ndarray (a sequence of naturals)               *)
(*   data   the numeric content, flattened in row-major order              *)
(*   s      the text of a str                                              *)
(*   items  the elements of a tuple or list                                *)
(*                                                                         *)
(* A number x is stored as the integer 2*x, so that the model has whole   *)
(* numbers and numbers with fractional part 0.5.  +inf, -inf and NaN are  *)
(* the reserved codes PosInf, NegInf and NaN, compared as IEEE 754 does.  *)
(***************************************************************************)
EXTENDS Integers, Sequences, FiniteSets, TLC

VARIABLES op,      \* the check that was called ("none" before any call)
          subject, \* its positional-only first argument
          opt,     \* its other arguments
          result,  \* the outcome of the call: pass, or the error raised
          ret,     \* the value the call returned (None for a check)
          held,    \* an object the caller keeps over several calls (None if none)
          created  \* the held object as the caller created it

vars == <<op, subject, opt, result, ret, held, created>>

-----------------------------------------------------------------------------
(* Bounds of the model *)

MaxLen == 3     \* longest 1-D array / sequence
MaxDim == 3     \* largest dimension size in a shape or shape spec
MaxSpecs == 2   \* longest list of shape specs
MaxNum == 2     \* numbers range over -1, -0.5, ..., MaxNum

-----------------------------------------------------------------------------
(* Numbers *)

Num(k) == 2 * k          \* the stored form of the whole number k
PosInf == 1000
NegInf == -1000
NaN == 9999

IsNaN(x) == x = NaN
Lt(x, y) == ~IsNaN(x) /\ ~IsNaN(y) /\ x < y
Le(x, y) == ~IsNaN(x) /\ ~IsNaN(y) /\ x <= y
Gt(x, y) == Lt(y, x)
Ge(x, y) == Le(y, x)
NumEq(x, y) == ~IsNaN(x) /\ ~IsNaN(y) /\ x = y

\* np.floor on the stored form; floor(nan) = nan, floor(+-inf) = +-inf
Floor(x) == IF x \in {NaN, PosInf, NegInf} THEN x ELSE 2 * (x \div 2)

IsWhole(x) == x \notin {NaN, PosInf, NegInf} /\ x % 2 = 0
ToInt(x) == x \div 2     \* int(x) of a whole number

-----------------------------------------------------------------------------
(* Python objects *)

Obj(c, dt, sh, d, str, it) ==
    [cls |-> c, dtype |-> dt, shape |-> sh, data |-> d, s |-> str, items |-> it]

PyNone == Obj("NoneType", "", <<>>, <<>>, "", <<>>)
PyInt(k) == Obj("int", "", <<>>, <<Num(k)>>, "", <<>>)
PyBool(b) == Obj("bool", "", <<>>, <<IF b THEN Num(1) ELSE Num(0)>>, "", <<>>)
PyFloat(x) == Obj("float", "", <<>>, <<x>>, "", <<>>)
PyComplex(x) == Obj("complex", "", <<>>, <<x>>, "", <<>>)
PyStr(str) == Obj("str", "", <<>>, <<>>, str, <<>>)
PyTuple(it) == Obj("tuple", "", <<>>, <<>>, "", it)
PyList(it) == Obj("list", "", <<>>, <<>>, "", it)
PyDict == Obj("dict", "", <<>>, <<>>, "", <<>>)
\* iter(list): an iterator that yields the items it once and is then exhausted
PyIter(it) == Obj("list_iterator", "", <<>>, <<>>, "", it)
NdArray(dt, sh, d) == Obj("ndarray", dt, sh, d, "", <<>>)
\* a np.dtype object, and a class object such as float or np.float32
NpDtype(dt) == Obj("dtype", dt, <<>>, <<>>, "", <<>>)
PyType(c) == Obj("type", "", <<>>, <<>>, c, <<>>)

\* dtype.type: the NumPy scalar class of a dtype
DtypeType(dt) == "np." \o (IF dt = "bool" THEN "bool_" ELSE
                           IF dt = "str" THEN "str_" ELSE dt)
NpScalar(dt, x) == Obj(DtypeType(dt), dt, <<>>, <<x>>, "", <<>>)

-----------------------------------------------------------------------------
(* Outcomes *)

Pass == [kind |-> "pass", name |-> "", msg |-> "", cite |-> <<>>, got |-> ""]

\* raise kind(f"{name} {msg} ..."), citing the values cite and the type got
Raise(kind, name, msg, cite, got) ==
    [kind |-> kind, name |-> name, msg |-> msg, cite |-> cite, got |-> got]

Passed(r) == r.kind = "pass"

\* statement sequencing: rest runs only if r returned normally
Then(r, rest) == IF Passed(r) THEN rest ELSE r


\* a value returned together with the outcome of the call that computed it
Return(value) == [r |-> Pass, value |-> value]
Fail(r) == [r |-> r, value |-> PyNone]

-----------------------------------------------------------------------------
(* Classes: the built-in types, the abstract base classes of numbers and   *)
(* collections.abc, and the NumPy scalar types                             *)

\* the direct base classes of a class, registrations with an ABC included
Bases(c) ==
    CASE c = "bool" -> {"int"}
      [] c = "int" -> {"Integral"}
      [] c = "float" -> {"Real"}
      [] c = "complex" -> {"Complex"}
      [] c = "Integral" -> {"Rational"}
      [] c = "Rational" -> {"Real"}
      [] c = "Real" -> {"Complex"}
      [] c = "Complex" -> {"Number"}
      [] c = "np.int64" -> {"np.integer"}
      [] c = "np.int32" -> {"np.integer"}
      [] c = "np.uint8" -> {"np.integer"}
      [] c = "np.integer" -> {"np.number", "Integral"}
      [] c = "np.float64" -> {"np.floating", "float"}
      [] c = "np.float32" -> {"np.floating"}
      [] c = "np.floating" -> {"np.number", "Real"}
      [] c = "np.complex128" -> {"np.complexfloating", "complex"}
      [] c = "np.complexfloating" -> {"np.number", "Complex"}
      [] c = "np.number" -> {"np.generic", "Number"}
      [] c = "np.bool_" -> {"np.generic"}
      [] c = "np.str_" -> {"np.generic", "str"}
      [] c = "str" -> {"Sequence"}
      [] c = "list" -> {"Sequence"}
      [] c = "tuple" -> {"Sequence"}
      [] c = "Sequence" -> {"Iterable"}
      [] c = "ndarray" -> {"Iterable"}
      [] c = "dict" -> {"Iterable"}
      [] c = "list_iterator" -> {"Iterator"}
      [] c = "Iterator" -> {"Iterable"}
      [] OTHER -> {}

RECURSIVE IsSubclass(_, _)
\* issubclass(c, d)
IsSubclass(c, d) == c = d \/ \E b \in Bases(c) : IsSubclass(b, d)

\* classinfo arguments: a single class, a tuple of classes or a Union of classes
Class(c) == [isTuple |-> FALSE, origin |-> "", classes |-> <<c>>]
Classes(cs) == [isTuple |-> TRUE, origin |-> "", classes |-> cs]
UnionOf(cs) == [isTuple |-> FALSE, origin |-> "Union", classes |-> cs]

\* classinfo = get_args(classinfo) if get_origin(classinfo) is Union
GetArgs(classinfo) ==
    IF classinfo.origin = "Union" THEN Classes(classinfo.classes) ELSE classinfo

\* isinstance(obj, classinfo)
IsInstance(obj, classinfo) ==
    \E i \in 1..Len(classinfo.classes) : IsSubclass(obj.cls, classinfo.classes[i])

\* isinstance(name, str); names are str objects or other objects
NameText(name) == IF IsSubclass(name.cls, "str") THEN name.s ELSE "<" \o name.cls \o ">"

\* check_is_instance with allow_subclass=False accepting subclasses
check_is_instance_isa(obj, classinfo, allow_subclass, name) ==
    IF ~IsSubclass(name.cls, "str")
    THEN Raise("TypeError", "Name", "must be a string", <<>>, name.cls)
    ELSE IF ~IsInstance(obj, classinfo)
         THEN Raise("TypeError", name.s, "must be an instance of", <<>>, obj.cls)
         ELSE Pass

check_is_instance(obj, classinfo_, allow_subclass, name) ==
    IF ~IsSubclass(name.cls, "str")
    THEN Raise("TypeError", "Name", "must be a string", <<>>, name.cls)
    ELSE
    LET classinfo == GetArgs(classinfo_)
        num_classes == IF classinfo.isTuple THEN Len(classinfo.classes) ELSE 1
        is_instance == IsInstance(obj, classinfo)
    IN  IF allow_subclass /\ ~is_instance
        THEN Raise("TypeError", name.s,
                   IF num_classes = 1 THEN "must be an instance of"
                                      ELSE "must be an instance of any type",
                   <<>>, obj.cls)
        ELSE IF ~allow_subclass
        THEN IF classinfo.isTuple
             THEN IF \A i \in 1..Len(classinfo.classes) : obj.cls # classinfo.classes[i]
                  THEN Raise("TypeError", name.s,
                             "must have one of the following types", <<>>, obj.cls)
                  ELSE Pass
             ELSE IF obj.cls # classinfo.classes[1]
                  THEN Raise("TypeError", name.s, "must have type", <<>>, obj.cls)
                  ELSE Pass
        ELSE Pass

check_is_type(obj, classinfo, name) ==
    check_is_instance(obj, classinfo, FALSE, name)

check_is_string(obj, allow_subclass, name) ==
    check_is_instance(obj, Class("str"), allow_subclass, name)

check_is_sequence(obj, name) ==
    check_is_instance(obj, Class("Sequence"), TRUE, name)

check_is_iterable(obj, name) ==
    check_is_instance(obj, Class("Iterable"), TRUE, name)

\* the list comprehension that checks one item only
check_items_first(items, i, some_type, allow_subclass, name) ==
    IF i > Len(items) THEN Pass
    ELSE check_is_instance(items[i], some_type, allow_subclass, name)

RECURSIVE check_items(_, _, _, _, _)
\* the list comprehension of check_is_iterable_of_some_type: the items are
\* checked in iteration order and the first failure propagates
check_items(items, i, some_type, allow_subclass, name) ==
    IF i > Len(items) THEN Pass
    ELSE Then(check_is_instance(items[i], some_type, allow_subclass, name),
              check_items(items, i + 1, some_type, allow_subclass, name))

\* iter(obj): the elements a for loop over obj yields
IterItems(obj) ==
    IF obj.cls \in {"list", "tuple", "list_iterator"} THEN obj.items
    ELSE IF obj.cls = "str" THEN [i \in 1..Len(obj.s) |-> PyStr(SubSeq(obj.s, i, i))]
    ELSE IF obj.cls = "ndarray" /\ Len(obj.shape) = 1
         THEN [i \in 1..Len(obj.data) |-> NpScalar(obj.dtype, obj.data[i])]
    ELSE <<>>

check_is_iterable_of_some_type(iterable_obj, some_type, allow_subclass, name) ==
    Then(check_is_iterable(iterable_obj, name),
         check_items(IterItems(iterable_obj), 1, some_type, allow_subclass,
                     PyStr("All items of " \o NameText(name))))

check_is_iterable_of_strings(iterable_obj, allow_subclass, name) ==
    check_is_iterable_of_some_type(iterable_obj, Class("str"), allow_subclass, name)

\* string_in in string_iterable: a str is searched for the substring, any
\* other iterable is iterated and its items compared
StrIn(string_in, string_iterable) ==
    IF string_iterable.cls = "str"
    THEN \E i \in 1..(Len(string_iterable.s) + 1), j \in 0..Len(string_iterable.s) :
            SubSeq(string_iterable.s, i, j) = string_in.s
    ELSE \E i \in 1..Len(IterItems(string_iterable)) :
            /\ IsSubclass(IterItems(string_iterable)[i].cls, "str")
            /\ IterItems(string_iterable)[i].s = string_in.s

\* the iterable after a loop has run over all its items: an iterator is
\* exhausted, a container is as it was
Drained(obj) == IF obj.cls = "list_iterator" THEN PyIter(<<>>) ELSE obj

check_is_string_in_iterable(string_in, string_iterable, name) ==
    Then(check_is_string(string_in, TRUE, name),
    Then(check_is_iterable_of_strings(string_iterable, TRUE, PyStr("String Iterable")),
         IF ~StrIn(string_in, Drained(string_iterable))
         THEN Raise("ValueError", name.s, "is not in the iterable", <<>>, "")
         ELSE Pass))

\* the definitions of "number" that check_is_number knows
Definitions == PyList(<<PyStr("abstract"), PyStr("builtin"), PyStr("numpy")>>)

\* check_is_number whose 'numpy' definition uses the built-in classes
check_is_number_builtin(num, definition, must_be_real, name) ==
    Then(check_is_string_in_iterable(definition, Definitions, PyStr("String")),
         check_is_instance(num,
            IF definition.s = "abstract"
            THEN (IF must_be_real THEN Class("Real") ELSE Class("Number"))
            ELSE (IF must_be_real THEN Classes(<<"float", "int">>)
                                  ELSE Classes(<<"float", "int", "complex">>)),
            TRUE, name))

check_is_number(num, definition, must_be_real, name) ==
    Then(check_is_string_in_iterable(definition, Definitions, PyStr("String")),
         check_is_instance(num,
            IF definition.s = "abstract"
            THEN (IF must_be_real THEN Class("Real") ELSE Class("Number"))
            ELSE IF definition.s = "builtin"
            THEN (IF must_be_real THEN Classes(<<"float", "int">>)
                                  ELSE Classes(<<"float", "int", "complex">>))
            ELSE (IF must_be_real THEN Classes(<<"np.floating", "np.integer">>)
                                  ELSE Class("np.number")),
            TRUE, name))

-----------------------------------------------------------------------------
(* Arrays *)

\* the number of elements of an array of shape sh, from dimension i on
RECURSIVE SizeFrom(_, _)
SizeFrom(sh, i) == IF i > Len(sh) THEN 1 ELSE sh[i] * SizeFrom(sh, i + 1)

Size(sh) == SizeFrom(sh, 1)

\* the dtype np.asarray gives to the elements of a list or tuple
ItemsDtype(items) ==
    LET has(c) == \E i \in 1..Len(items) :
                     items[i].cls = c \/ items[i].dtype = c
    IN  IF Len(items) = 0 THEN "float64"
        ELSE IF has("str") THEN "str"
        ELSE IF has("complex") \/ has("complex128") THEN "complex128"
        ELSE IF has("float") \/ has("float64") THEN "float64"
        ELSE IF has("int") \/ has("int64") THEN "int64"
        ELSE IF has("uint8") THEN "uint8"
        ELSE "bool"

\* cast_to_ndarray: an ndarray is returned as it is; a number becomes a
\* 0-dimensional array, a flat list or tuple of numbers a 1-D array
cast_to_ndarray(obj) ==
    IF obj.cls = "ndarray" THEN obj
    ELSE IF obj.cls \in {"list", "tuple"}
    THEN NdArray(ItemsDtype(obj.items), <<Len(obj.items)>>,
                 [i \in 1..Len(obj.items) |-> obj.items[i].data[1]])
    ELSE IF obj.dtype # "" THEN NdArray(obj.dtype, <<>>, obj.data)
    ELSE NdArray(ItemsDtype(<<obj>>), <<>>, obj.data)

\* arr if isinstance(arr, np.ndarray) else cast_to_ndarray(arr)
AsArray(arr) == IF arr.cls = "ndarray" THEN arr ELSE cast_to_ndarray(arr)

\* arr[i] of a 1-D array: a NumPy scalar
Item(arr, i) == NpScalar(arr.dtype, arr.data[i])

\* np.issubdtype(dtype, d) for an abstract NumPy scalar type d
IsSubdtype(dt, d) == IsSubclass(DtypeType(dt), d)

\* base_dtype arguments: a single dtype spec or a list / tuple of them
Base(d) == [isList |-> FALSE, dtypes |-> <<d>>]
BaseList(ds) == [isList |-> TRUE, dtypes |-> ds]

\* np.dtype(obj) of an object that is neither a dtype nor an array: a class
\* or a dtype name is converted, None is the default dtype, and NumPy raises
\* a TypeError for anything else
np_dtype(obj) ==
    IF obj.cls = "type"
    THEN CASE obj.s = "float" -> Return("float64")
           [] obj.s = "int" -> Return("int64")
           [] obj.s = "bool" -> Return("bool")
           [] obj.s = "complex" -> Return("complex128")
           [] obj.s = "str" -> Return("str")
           [] obj.s = "np.float32" -> Return("float32")
           [] obj.s = "np.uint8" -> Return("uint8")
           [] OTHER -> Fail(Raise("TypeError", "", "Cannot interpret as a data type", <<>>, obj.s))
    ELSE IF obj.cls = "str" /\ obj.s \in {"int64", "uint8", "float64", "float32", "complex128", "bool"}
    THEN Return(obj.s)
    ELSE IF obj.cls = "NoneType" THEN Return("float64")
    ELSE Fail(Raise("TypeError", "", "Cannot interpret as a data type", <<>>, obj.cls))

\* the loop of check_is_subdtype that returns at the first entry only
check_is_subdtype_first(input_obj, base_dtype, name) ==
    LET dtype == IF input_obj.cls \in {"dtype", "ndarray"}
                 THEN Return(input_obj.dtype)
                 ELSE np_dtype(input_obj)
        dt == dtype.value
    IN  Then(dtype.r,
             IF Len(base_dtype.dtypes) >= 1 /\ IsSubdtype(dt, base_dtype.dtypes[1])
             THEN Pass
             ELSE Raise("TypeError", name.s,
                        IF Len(base_dtype.dtypes) = 1
                        THEN "has incorrect dtype. The dtype must be a subtype of"
                        ELSE "has incorrect dtype. The dtype must be a subtype of at least one of",
                        <<>>, dt))

check_is_subdtype(input_obj, base_dtype, name) ==
    LET dtype == IF input_obj.cls \in {"dtype", "ndarray"}
                 THEN Return(input_obj.dtype)
                 ELSE np_dtype(input_obj)
        dt == dtype.value
    IN  Then(dtype.r,
             IF \E i \in 1..Len(base_dtype.dtypes) : IsSubdtype(dt, base_dtype.dtypes[i])
             THEN Pass
             ELSE Raise("TypeError", name.s,
                        IF Len(base_dtype.dtypes) = 1
                        THEN "has incorrect dtype. The dtype must be a subtype of"
                        ELSE "has incorrect dtype. The dtype must be a subtype of at least one of",
                        <<>>, dt))

check_is_numeric(arr_, name) ==
    LET arr == AsArray(arr_)
    IN  IF DtypeType(arr.dtype) \in
             {"np.int32", "np.int64", "np.float32", "np.float64", "np.complex128"}
        THEN Pass
        ELSE IF Passed(check_is_subdtype(arr, Base("np.number"), name))
        THEN Pass
        ELSE Raise("TypeError", name.s, "must be numeric.", <<>>, "")

\* check_is_real with the early return of check_is_numeric
check_is_real_complex(arr_, name) ==
    LET arr == AsArray(arr_)
    IN  IF DtypeType(arr.dtype) \in
             {"np.int32", "np.int64", "np.float32", "np.float64", "np.complex128"}
        THEN Pass
        ELSE IF Passed(check_is_subdtype(arr, BaseList(<<"np.floating", "np.integer">>), name))
        THEN Pass
        ELSE Raise("TypeError", name.s, "must have real numbers.", <<>>, "")

check_is_real(arr_, name) ==
    LET arr == AsArray(arr_)
    IN  IF DtypeType(arr.dtype) \in {"np.int32", "np.int64", "np.float32", "np.float64"}
        THEN Pass
        ELSE IF Passed(check_is_subdtype(arr, BaseList(<<"np.floating", "np.integer">>), name))
        THEN Pass
        ELSE Raise("TypeError", name.s, "must have real numbers.", <<>>, "")

\* check_is_finite that rejects NaN only
check_is_finite_nan(arr_, name) ==
    LET arr == AsArray(arr_)
    IN  IF \A i \in 1..Len(arr.data) : arr.data[i] # NaN
        THEN Pass
        ELSE Raise("ValueError", name.s, "must have finite values.", <<>>, "")

check_is_finite(arr_, name) ==
    LET arr == AsArray(arr_)
    IN  IF \A i \in 1..Len(arr.data) : arr.data[i] \notin {NaN, PosInf, NegInf}
        THEN Pass
        ELSE Raise("ValueError", name.s, "must have finite values.", <<>>, "")

\* check_is_integerlike that tests the values also when strict
check_is_integerlike_values(arr_, strict, name) ==
    LET arr == AsArray(arr_)
    IN  IF \E i \in 1..Len(arr.data) : ~NumEq(arr.data[i], Floor(arr.data[i]))
        THEN Raise("ValueError", name.s, "must have integer-like values.", <<>>, "")
        ELSE Pass

check_is_integerlike(arr_, strict, name) ==
    LET arr == AsArray(arr_)
    IN  IF strict
        THEN check_is_subdtype(arr, Base("np.integer"), PyStr("Input"))
        ELSE IF \E i \in 1..Len(arr.data) : ~NumEq(arr.data[i], Floor(arr.data[i]))
        THEN Raise("ValueError", name.s, "must have integer-like values.", <<>>, "")
        ELSE Pass

\* check_is_greater_than whose strict test is the non-strict one
check_is_greater_than_ge(arr_, value, strict, name) ==
    LET arr == AsArray(arr_)
        v == value.data[1]
    IN  Then(check_is_number(value, PyStr("abstract"), TRUE, PyStr("Object")),
        Then(check_is_real(value, PyStr("Array")),
             IF ~(\A i \in 1..Len(arr.data) : Ge(arr.data[i], v))
             THEN Raise("ValueError", name.s,
                        "values must all be greater than or equal to", <<v>>, "")
             ELSE Pass))

check_is_greater_than(arr_, value, strict, name) ==
    LET arr == AsArray(arr_)
        v == value.data[1]
    IN  Then(check_is_number(value, PyStr("abstract"), TRUE, PyStr("Object")),
        Then(check_is_real(value, PyStr("Array")),
             IF strict /\ ~(\A i \in 1..Len(arr.data) : Gt(arr.data[i], v))
             THEN Raise("ValueError", name.s, "values must all be greater than", <<v>>, "")
             ELSE IF ~(\A i \in 1..Len(arr.data) : Ge(arr.data[i], v))
             THEN Raise("ValueError", name.s,
                        "values must all be greater than or equal to", <<v>>, "")
             ELSE Pass))

check_is_less_than(arr_, value, strict, name) ==
    LET arr == AsArray(arr_)
        v == value.data[1]
    IN  Then(check_is_number(value, PyStr("abstract"), TRUE, PyStr("Object")),
        Then(check_is_real(value, PyStr("Array")),
             IF strict /\ ~(\A i \in 1..Len(arr.data) : Lt(arr.data[i], v))
             THEN Raise("ValueError", name.s, "values must all be less than", <<v>>, "")
             ELSE IF ~(\A i \in 1..Len(arr.data) : Le(arr.data[i], v))
             THEN Raise("ValueError", name.s,
                        "values must all be less than or equal to", <<v>>, "")
             ELSE Pass))

check_is_nonnegative(arr, name) ==
    check_is_greater_than(arr, PyInt(0), FALSE, name)

-----------------------------------------------------------------------------
(* Shapes *)

\* x == y for two tuple entries: numbers compare by value, whatever their type
ItemEq(x, y) ==
    /\ Len(x.data) = 1 /\ Len(y.data) = 1
    /\ Len(x.shape) = 0 /\ Len(y.shape) = 0
    /\ NumEq(x.data[1], y.data[1])

\* shape == t for a tuple t of int
TupleEq(shape, t) ==
    /\ shape.cls = "tuple"
    /\ Len(shape.items) = Len(t)
    /\ \A i \in 1..Len(t) : ItemEq(shape.items[i], PyInt(t[i]))

\* the literals of the early return of _validate_shape_value
CommonShapes == {<<-1>>, <<1>>, <<3>>, <<2>>, <<1, 3>>, <<-1, 3>>}

\* _validate_shape_value._is_valid_dim
_is_valid_dim(d) == IsSubclass(d.cls, "int") /\ Ge(d.data[1], Num(-1))

\* _is_valid_dim without the lower bound
_is_valid_dim_any(d) == IsSubclass(d.cls, "int")

\* _validate_shape_value without the checks of the tuple entries
_validate_shape_value_lax(shape) ==
    IF shape.cls = "NoneType"
    THEN Fail(Raise("TypeError", "", "None is not a valid shape. Use () instead.", <<>>, ""))
    ELSE IF IsSubclass(shape.cls, "int") THEN Return(PyTuple(<<shape>>))
    ELSE Return(shape)

_validate_shape_value(shape) ==
    IF shape.cls = "NoneType"
    THEN Fail(Raise("TypeError", "", "None is not a valid shape. Use () instead.", <<>>, ""))
    ELSE IF TupleEq(shape, <<>>) THEN Return(shape)
    ELSE IF \E t \in CommonShapes : TupleEq(shape, t) THEN Return(shape)
    ELSE IF _is_valid_dim(shape) THEN Return(PyTuple(<<shape>>))
    ELSE IF IsSubclass(shape.cls, "tuple")
            /\ \A i \in 1..Len(shape.items) : _is_valid_dim(shape.items[i])
    THEN Return(shape)
    ELSE Fail(
        Then(check_is_instance(shape, Classes(<<"int", "tuple">>), TRUE, PyStr("Shape")),
        Then(IF IsSubclass(shape.cls, "int") THEN Pass
             ELSE check_is_iterable_of_some_type(shape, Class("int"), TRUE, PyStr("Shape")),
        Then(check_is_greater_than(IF IsSubclass(shape.cls, "int")
                                   THEN PyTuple(<<shape>>) ELSE shape,
                                   PyInt(-1), FALSE, PyStr("Shape")),
             Raise("RuntimeError", "", "This line should not be reachable.", <<>>, "")))))

\* the sizes of a validated shape, as integers
Dims(shape) == [i \in 1..Len(shape.items) |-> ToInt(shape.items[i].data[1])]

RECURSIVE AllMap(_, _, _)
\* all(map(lambda x, y: True if x == y else y == -1, a, b)) from position i:
\* map stops at the end of the shorter of a and b
AllMap(a, b, i) ==
    IF i > Len(a) \/ i > Len(b) THEN TRUE
    ELSE (IF a[i] = b[i] THEN TRUE ELSE b[i] = -1) /\ AllMap(a, b, i + 1)

\* _shape_is_allowed without the comparison of the lengths
_shape_is_allowed_nolen(a, b) == AllMap(a, b, 1)

\* check_has_shape._shape_is_allowed; a: the shape of the array, b: allowed shape
_shape_is_allowed(a, b) ==
    IF Len(a) = Len(b) /\ AllMap(a, b, 1) THEN TRUE ELSE FALSE

\* for input_shape in shape of check_has_shape that looks at shape[0] only
ShapeLoopFirst(arr, shape, i, name) ==
    IF Len(shape) = 0
    THEN Raise("ValueError", name.s, "has shape which is not allowed.", arr.shape, "")
    ELSE LET v == _validate_shape_value(shape[1])
         IN  IF ~Passed(v.r) THEN v.r
             ELSE IF _shape_is_allowed(arr.shape, Dims(v.value)) THEN Pass
             ELSE Raise("ValueError", name.s, "has shape which is not allowed.",
                        arr.shape, "")

RECURSIVE ShapeLoop(_, _, _, _)
\* for input_shape in shape, from entry i, and the raise that follows it
ShapeLoop(arr, shape, i, name) ==
    IF i > Len(shape)
    THEN Raise("ValueError", name.s, "has shape which is not allowed.", arr.shape, "")
    ELSE LET v == _validate_shape_value(shape[i])
         IN  IF ~Passed(v.r) THEN v.r
             ELSE IF _shape_is_allowed(arr.shape, Dims(v.value)) THEN Pass
             ELSE ShapeLoop(arr, shape, i + 1, name)

check_has_shape(arr_, shape, name) ==
    LET arr == AsArray(arr_)
    IN  ShapeLoop(arr, IF shape.cls = "list" THEN shape.items ELSE <<shape>>, 1, name)

-----------------------------------------------------------------------------
(* Sortedness and ranges *)

\* SortedOp that ignores strict
SortedOpLax(ascending, strict, x, y) ==
    IF ascending THEN Le(x, y) ELSE Ge(x, y)

\* the comparison check_is_sorted selects for (ascending, strict)
SortedOp(ascending, strict, x, y) ==
    IF ascending /\ ~strict THEN Le(x, y)
    ELSE IF ascending /\ strict THEN Lt(x, y)
    ELSE IF ~ascending /\ ~strict THEN Ge(x, y)
    ELSE Gt(x, y)

\* np.all(arr[first] OP arr[second]) for the slicers along axis (0-based):
\* the element at flat position p (0-based, row-major) is compared with the
\* next one along axis, which lies stride positions further
AllPairs(arr, axis, ascending, strict) ==
    LET stride == SizeFrom(arr.shape, axis + 2)
        n == arr.shape[axis + 1]
    IN  \A p \in 0..(Len(arr.data) - 1) :
            (p \div stride) % n < n - 1 =>
                SortedOp(ascending, strict, arr.data[p + 1], arr.data[p + stride + 1])

\* arr.flatten()
Flatten(arr) == NdArray(arr.dtype, <<Len(arr.data)>>, arr.data)

\* the tail of check_is_sorted: the comparison and the raise
SortedTail(arr, axis, ascending, strict, name) ==
    IF AllPairs(arr, axis, ascending, strict) THEN Pass
    ELSE Raise("ValueError", name.s,
               IF ascending
               THEN (IF strict THEN "must be sorted in strict ascending order."
                               ELSE "must be sorted in ascending order.")
               ELSE (IF strict THEN "must be sorted in strict descending order."
                               ELSE "must be sorted in descending order."),
               IF Len(arr.data) <= 4 THEN arr.data ELSE <<Len(arr.data)>>, "")

\* a negative axis counted from the wrong end
PositiveAxisMirrored(ndim, axis) == IF axis < 0 THEN (-axis) - 1 ELSE axis

\* if axis < 0: axis = arr.ndim + axis
PositiveAxis(ndim, axis) == IF axis < 0 THEN ndim + axis ELSE axis

RECURSIVE check_is_sorted(_, _, _, _, _)

\* check_is_in_range that tests the upper bound before the lower bound
check_is_in_range_upper_first(arr_, rng, strict_lower, strict_upper, name) ==
    LET rng_ == cast_to_ndarray(rng)
        arr == AsArray(arr_)
    IN  Then(check_has_shape(rng_, PyInt(2), PyStr("Range")),
        Then(check_is_sorted(rng_, TRUE, FALSE, PyInt(-1), PyStr("Range")),
        Then(check_is_less_than(arr, Item(rng_, 2), strict_upper, name),
             check_is_greater_than(arr, Item(rng_, 1), strict_lower, name))))

check_is_in_range(arr_, rng, strict_lower, strict_upper, name) ==
    LET rng_ == cast_to_ndarray(rng)
        arr == AsArray(arr_)
    IN  Then(check_has_shape(rng_, PyInt(2), PyStr("Range")),
        Then(check_is_sorted(rng_, TRUE, FALSE, PyInt(-1), PyStr("Range")),
        Then(check_is_greater_than(arr, Item(rng_, 1), strict_lower, name),
             check_is_less_than(arr, Item(rng_, 2), strict_upper, name))))

check_is_sorted(arr_, ascending, strict, axis, name) ==
    LET arr == AsArray(arr_)
        ndim == Len(arr.shape)
    IN  IF ndim = 0 THEN Pass
        ELSE IF axis.cls = "NoneType"
        THEN SortedTail(Flatten(arr), 0, ascending, strict, name)
        ELSE IF ItemEq(axis, PyInt(-1))
        THEN SortedTail(arr, PositiveAxis(ndim, -1), ascending, strict, name)
        ELSE
        Then(check_is_number(axis, PyStr("abstract"), TRUE, PyStr("Axis")),
        Then(check_is_integerlike(axis, FALSE, PyStr("Axis")),
        Then(IF axis.data[1] \in {PosInf, NegInf}
             THEN Raise("OverflowError", "", "cannot convert float infinity to integer",
                        <<>>, "")
             ELSE Pass,
             LET ax == ToInt(axis.data[1])
             IN  IF check_is_in_range(PyInt(ax), PyList(<<PyInt(-ndim), PyInt(ndim - 1)>>),
                                      FALSE, FALSE, PyStr("Axis")).kind = "ValueError"
                 THEN Raise("ValueError", "Axis", "is out of bounds for ndim", <<ax, ndim>>, "")
                 ELSE Then(check_is_in_range(PyInt(ax),
                                             PyList(<<PyInt(-ndim), PyInt(ndim - 1)>>),
                                             FALSE, FALSE, PyStr("Axis")),
                           SortedTail(arr, PositiveAxis(ndim, ax),
                                      ascending, strict, name)))))

-----------------------------------------------------------------------------
(* Scalars and lengths *)

check_is_scalar(scalar, must_be_real, name) ==
    IF scalar.cls = "ndarray"
    THEN IF Len(scalar.shape) > 0
         THEN Raise("ValueError", name.s, "must be a 0-dimensional array, got ndim",
                    <<Len(scalar.shape)>>, "")
         ELSE IF must_be_real THEN check_is_real(scalar, name)
                              ELSE check_is_numeric(scalar, name)
    ELSE check_is_number(scalar, PyStr("abstract"), must_be_real, PyStr("Object"))

\* arr.shape = sh: the shape is assigned in place
reshape_inplace(arr, sh) ==
    [value |-> NdArray(arr.dtype, sh, arr.data), self |-> NdArray(arr.dtype, sh, arr.data)]

\* arr.reshape(sh): value is the new array returned, a view of the same data,
\* and self is arr as it is after the call
reshape(arr, sh) == [value |-> NdArray(arr.dtype, sh, arr.data), self |-> arr]

\* len(arr)
PyLen(arr) ==
    IF arr.cls = "ndarray" THEN arr.shape[1]
    ELSE IF arr.cls = "str" THEN Len(arr.s)
    ELSE Len(arr.items)

\* arr_len not in exact_length / arr_len < min_length / arr_len > max_length
LenNotIn(arr_len, exact_length) ==
    \A i \in 1..Len(exact_length.data) : ~NumEq(Num(arr_len), exact_length.data[i])

\* the validation of min_length or max_length
CheckBound(bound, name) ==
    IF bound.cls = "NoneType" THEN Pass
    ELSE Then(check_is_scalar(cast_to_ndarray(bound), TRUE, name),
              check_is_real(cast_to_ndarray(bound), name))

\* the comparison of the length with min_length that lets an equal length fail
MinViolatedStrict(arr_len, min_length) == Le(Num(arr_len), min_length.data[1])

MinViolated(arr_len, min_length) == Lt(Num(arr_len), min_length.data[1])

MaxViolated(arr_len, max_length) == Gt(Num(arr_len), max_length.data[1])

CheckBoundsSorted(min_length, max_length) ==
    IF min_length.cls # "NoneType" /\ max_length.cls # "NoneType"
    THEN check_is_sorted(PyTuple(<<cast_to_ndarray(min_length), cast_to_ndarray(max_length)>>),
                         TRUE, FALSE, PyInt(-1), PyStr("Range"))
    ELSE Pass

\* the reshape of a scalar that leaves a 0-dimensional array as it is
AsSizedNumbersOnly(arr_, allow_scalar) ==
    IF allow_scalar /\ IsSubclass(arr_.cls, "Number")
    THEN NdArray(cast_to_ndarray(arr_).dtype, <<1>>, arr_.data)
    ELSE arr_

\* the object the length is taken of: with allow_scalar a number becomes
\* np.array([arr]) and a 0-dimensional array is reshaped to (1,)
AsSized(arr_, allow_scalar) ==
    IF allow_scalar
    THEN (IF IsSubclass(arr_.cls, "Number")
          THEN NdArray(cast_to_ndarray(arr_).dtype, <<1>>, arr_.data)
          ELSE IF arr_.cls = "ndarray" /\ Len(arr_.shape) = 0
          THEN reshape(arr_, <<1>>).value
          ELSE arr_)
    ELSE arr_

check_has_length(arr_, exact_length, min_length, max_length, must_be_1d, allow_scalar, name) ==
    LET arr == AsSized(arr_, allow_scalar)
        arr_len == PyLen(arr)
    IN  Then(check_is_instance(arr, Classes(<<"Sequence", "ndarray">>), TRUE, name),
        Then(IF must_be_1d THEN check_has_shape(arr, PyInt(-1), PyStr("Array")) ELSE Pass,
        Then(IF arr.cls = "ndarray" /\ Len(arr.shape) = 0
             THEN Raise("TypeError", "", "len() of unsized object", <<>>, "")
             ELSE Pass,
        Then(IF exact_length.cls = "NoneType" THEN Pass
             ELSE Then(check_is_integerlike(cast_to_ndarray(exact_length), FALSE,
                                            PyStr("'exact_length'")),
                       IF LenNotIn(arr_len, cast_to_ndarray(exact_length))
                       THEN Raise("ValueError", name.s, "must have a length equal to any of",
                                  <<arr_len>>, "")
                       ELSE Pass),
        Then(CheckBound(min_length, PyStr("Min length")),
        Then(CheckBound(max_length, PyStr("Max length")),
        Then(CheckBoundsSorted(min_length, max_length),
        Then(IF min_length.cls # "NoneType" /\ MinViolated(arr_len, min_length)
             THEN Raise("ValueError", name.s, "must have a minimum length of",
                        <<arr_len>>, "")
             ELSE Pass,
             IF max_length.cls # "NoneType" /\ MaxViolated(arr_len, max_length)
             THEN Raise("ValueError", name.s, "must have a maximum length of",
                        <<arr_len>>, "")
             ELSE Pass))))))))

\* the object the caller passed to check_has_length as arr, after the call:
\* np.array([arr]) and every other statement build new objects
arr_after(arr_, allow_scalar) ==
    IF allow_scalar /\ ~IsSubclass(arr_.cls, "Number")
       /\ arr_.cls = "ndarray" /\ Len(arr_.shape) = 0
    THEN reshape(arr_, <<1>>).self
    ELSE arr_

-----------------------------------------------------------------------------
(* The arguments the calls are drawn from *)

\* sequences over S of length lo..hi
SeqsOf(S, lo, hi) == UNION {[1..n -> S] : n \in lo..hi}

\* whole numbers, numbers with a fractional part, and the non-finite values
Wholes == {Num(k) : k \in 0..MaxNum}
Halves == {Num(k) + 1 : k \in -1..(MaxNum - 1)}
NonFinite == {NaN, PosInf, NegInf}

Names == {PyStr("x")}

\* objects of every class of the model
Scalars ==
    {PyNone, PyInt(1), PyBool(TRUE), PyBool(FALSE), PyFloat(Num(1) + 1), PyFloat(NaN),
     PyComplex(Num(1)), PyStr("a"), PyDict,
     NpScalar("int64", Num(1)), NpScalar("uint8", Num(1)), NpScalar("float64", Num(1) + 1),
     NpScalar("float32", PosInf), NpScalar("complex128", Num(1)), NpScalar("bool", Num(1))}

Dtypes == {"int64", "uint8", "float64", "float32", "complex128", "bool", "str"}

Objects ==
    Scalars
    \cup {PyList(<<>>), PyList(<<PyInt(1)>>), PyTuple(<<PyInt(1), PyInt(2)>>)}
    \cup {NdArray(dt, <<>>, <<Num(1)>>) : dt \in Dtypes}
    \cup {NdArray(dt, <<2>>, <<Num(0), Num(1)>>) : dt \in {"int64", "bool"}}
    \cup {NdArray("float64", <<1, 1>>, <<NaN>>)}

ClassInfos ==
    {Class(c) : c \in {"int", "bool", "float", "complex", "str", "tuple", "object",
                       "Real", "Number", "Sequence", "Iterable", "ndarray",
                       "np.floating", "np.integer", "np.number"}}
    \cup {Classes(cs) : cs \in {<<"int", "str">>, <<"float", "int">>, <<"bool">>,
                                <<"Sequence", "ndarray">>, <<"np.floating", "np.integer">>,
                                <<"float", "int", "complex">>}}
    \cup {UnionOf(<<"int", "float">>)}

\* the shapes of the arrays given to check_has_shape, and the arrays
DimSizes == {0, MaxDim}
ArrayShapes == SeqsOf(DimSizes, 0, 2)
Zeros(sh) == NdArray("float64", sh, [i \in 1..Size(sh) |-> Num(0)])

\* the entries of a shape argument: shape specs, and values that are none
SpecDims == {PyInt(-1), PyInt(MaxDim)}
ValidSpecs ==
    {PyInt(-1), PyInt(MaxDim)} \cup {PyTuple(t) : t \in SeqsOf(SpecDims, 0, 2)}
InvalidSpecs ==
    {PyNone, PyInt(-2), PyFloat(Num(1)), PyTuple(<<PyInt(MaxDim), PyInt(-2)>>),
     PyTuple(<<PyFloat(Num(1) + 1)>>)}
\* a tuple with a float entry that equals a literal of the early return
FloatSpecs == {PyTuple(<<PyFloat(Num(MaxDim))>>)}
SpecEntries == ValidSpecs \cup InvalidSpecs \cup FloatSpecs
ShapeArgs == SpecEntries \cup {PyList(l) : l \in SeqsOf(SpecEntries, 0, MaxSpecs)}

\* the values given to _validate_shape_value
ShapeValues ==
    SpecEntries
    \cup {PyTuple(<<PyFloat(Num(1))>>), PyTuple(<<PyInt(1), PyFloat(Num(3))>>),
          PyTuple(<<PyInt(-1), PyInt(3)>>), PyTuple(<<PyInt(5), PyInt(0)>>),
          PyTuple(<<PyStr("a"), PyInt(-2)>>), PyTuple(<<PyInt(-2), PyFloat(Num(1))>>),
          PyBool(TRUE), PyInt(0), PyList(<<PyInt(3)>>), PyStr("a"), PyDict}

\* the shapes and the normalized shape specs (tuples of sizes and wildcards)
\* given to _shape_is_allowed
ConcreteShapes == SeqsOf(0..MaxDim, 0, 2)
NormalizedSpecs == SeqsOf(-1..MaxDim, 0, 2)

\* 1-D arrays of at most n elements drawn from vals
Arrays1D(dt, vals, n) == {NdArray(dt, <<Len(d)>>, d) : d \in SeqsOf(vals, 0, n)}

\* the arrays and ranges given to check_is_in_range
RangeValues == {Num(0), Num(0) + 1, Num(1), Num(MaxNum), NaN, PosInf}
RangeArrays ==
    Arrays1D("float64", RangeValues, MaxLen - 1)
    \cup {PyFloat(Num(1) + 1), PyList(<<PyInt(0), PyInt(MaxNum)>>)}
RangeBounds == {PyInt(0), PyInt(1), PyInt(MaxNum)} \cup {PyFloat(x) : x \in NonFinite}
Ranges ==
    {PyList(<<lo, hi>>) : lo \in RangeBounds, hi \in RangeBounds}
    \cup {PyList(<<>>), PyList(<<PyInt(0), PyInt(1), PyInt(2)>>), PyInt(1),
          NdArray("int64", <<1, 2>>, <<Num(0), Num(1)>>)}

\* the arrays and axes given to check_is_sorted
SortArrays ==
    Arrays1D("float64", Wholes \cup {NaN}, MaxLen)
    \cup {NdArray("int64", <<2, 2>>, d) : d \in [1..4 -> Wholes]}
    \cup {NdArray("int64", <<1, 2>>, d) : d \in [1..2 -> Wholes]}
    \cup {Zeros(<<2, 0>>), Zeros(<<0, 2>>), Zeros(<<>>), PyInt(1),
          PyList(<<PyInt(1), PyInt(0)>>)}
Axes ==
    {PyNone, PyStr("a"), PyFloat(Num(0)), PyFloat(Num(0) + 1), PyFloat(PosInf)}
    \cup {PyInt(k) : k \in -3..2}

\* the arrays given to check_is_integerlike
IntegerlikeArrays ==
    UNION {Arrays1D(dt, Wholes \cup {Num(-1)}, MaxLen - 1) : dt \in {"int64", "int32"}}
    \cup Arrays1D("uint8", Wholes, MaxLen - 1)
    \cup Arrays1D("bool", {Num(0), Num(1)}, MaxLen - 1)
    \cup UNION {Arrays1D(dt, Wholes \cup Halves \cup NonFinite, MaxLen - 1) :
                   dt \in {"float64", "float32"}}
    \cup {NdArray("float64", <<>>, <<x>>) : x \in Halves \cup Wholes}
    \cup {PyInt(1), PyFloat(Num(1) + 1), PyList(<<PyFloat(Num(1)), PyFloat(Num(-1))>>)}

\* the subjects and the constraints given to check_has_length
LengthSubjects ==
    {PyList([i \in 1..n |-> PyInt(0)]) : n \in 0..MaxLen}
    \cup {Zeros(<<0>>), Zeros(<<MaxLen>>), Zeros(<<2, 3>>), Zeros(<<1, 1>>), Zeros(<<>>), PyInt(1), PyFloat(Num(1)),
          PyTuple(<<PyInt(1), PyInt(2)>>), PyNone}
Lengths == {PyInt(k) : k \in 0..MaxLen}
ExactLengths ==
    {PyNone, PyFloat(Num(1) + 1)} \cup Lengths
    \cup {PyList(<<PyInt(k1), PyInt(k2)>>) : k1 \in 0..MaxLen, k2 \in 2..MaxLen}
BoundLengths == {PyNone, PyInt(MaxLen + 1)} \cup Lengths

\* the subjects and the base dtypes given to check_is_subdtype
SubdtypeSubjects ==
    {NdArray(dt, <<1>>, <<Num(1)>>) : dt \in Dtypes}
    \cup {NpDtype(dt) : dt \in Dtypes}
    \cup {PyType(c) : c \in {"float", "int", "bool", "np.float32", "list"}}
    \cup {PyStr("uint8"), PyNone, PyInt(1)}
BaseEntries == {"np.integer", "np.floating", "np.complexfloating", "np.number", "np.float64"}
BaseDtypes ==
    {Base(d) : d \in BaseEntries} \cup {BaseList(ds) : ds \in SeqsOf(BaseEntries, 0, 2)}

\* the arrays given to check_is_numeric and check_is_real: one of each dtype,
\* and array-likes
DtypeArrays ==
    {NdArray(dt, sh, [i \in 1..Size(sh) |-> Num(1)]) :
        dt \in Dtypes \cup {"int32"}, sh \in {<<>>, <<MaxLen>>, <<1, 2>>}}
    \cup {PyInt(1), PyBool(TRUE), PyComplex(Num(1)), PyStr("a"),
          PyList(<<PyInt(1), PyFloat(Num(1) + 1)>>), PyList(<<PyBool(TRUE)>>)}

\* the iterables and types given to check_is_iterable_of_some_type
ItemObjects == {PyInt(1), PyBool(TRUE), PyFloat(Num(1) + 1), PyStr("a")}
Iterables ==
    {PyList(l) : l \in SeqsOf(ItemObjects, 0, MaxLen)}
    \cup {PyTuple(<<PyInt(1), PyNone>>), PyStr("ab"), PyStr(""), PyDict,
          NdArray("int64", <<2>>, <<Num(0), Num(1)>>), PyInt(1), PyNone}
SomeTypes ==
    {Class("int"), Class("str"), Class("float"), Class("Real"),
     Classes(<<"int", "str">>), Classes(<<"float", "int">>)}

\* the candidates and the iterables given to check_is_string_in_iterable
StringCandidates == {PyStr("a"), PyStr("ab"), PyStr("c"), PyStr(""), PyInt(1), PyNone}
StringItems == {PyStr("a"), PyStr("b"), PyInt(1)}
StringIterables ==
    {PyList(l) : l \in SeqsOf(StringItems, 0, MaxLen - 1)}
    \cup {PyIter(l) : l \in SeqsOf(StringItems, 0, MaxLen - 1)}
    \cup {PyTuple(<<PyStr("a"), PyStr("ab")>>), PyStr("abc"), PyStr(""), PyDict,
          PyInt(1), PyNone}

\* the arrays given to check_is_finite
FiniteArrays ==
    Arrays1D("float64", Wholes \cup NonFinite, MaxLen - 1)
    \cup Arrays1D("int64", Wholes, MaxLen - 1)
    \cup {NdArray("float32", <<1, 2>>, <<Num(1), PosInf>>), NdArray("float64", <<>>, <<NaN>>),
          PyFloat(NegInf), PyFloat(Num(1) + 1), PyInt(1),
          PyList(<<PyInt(1), PyFloat(NaN)>>), PyList(<<>>)}

\* the comparison values given to check_is_greater_than and check_is_less_than
CompareValues ==
    {PyInt(0), PyInt(1), PyFloat(Num(0) + 1), PyFloat(NaN), PyFloat(PosInf),
     NpScalar("float64", Num(1)), NpScalar("int64", Num(MaxNum)),
     PyBool(TRUE), NpScalar("bool", Num(1)), PyComplex(Num(1)), PyStr("a"), PyNone,
     PyList(<<PyInt(1)>>)}

\* strict: bool = True
StrictDefault == TRUE

\* the objects a caller keeps over several calls
HeldObjects ==
    {Zeros(<<>>), Zeros(<<1>>), Zeros(<<MaxLen>>), PyFloat(Num(1)), PyList(<<PyInt(0)>>)}

NoOpt ==
    [classinfo |-> Class("object"), base_dtype |-> Base("np.generic"), allow_subclass |-> TRUE, definition |-> PyNone,
     must_be_real |-> TRUE, shape |-> PyNone, b |-> <<>>, rng |-> PyNone,
     strict_lower |-> FALSE, strict_upper |-> FALSE, ascending |-> TRUE,
     strict |-> FALSE, axis |-> PyNone, exact_length |-> PyNone,
     min_length |-> PyNone, max_length |-> PyNone, must_be_1d |-> FALSE,
     allow_scalar |-> FALSE, name |-> PyStr(""), value |-> PyNone, strict_given |-> TRUE,
     string_iterable |-> PyNone]

-----------------------------------------------------------------------------
(* The state machine: one action per check *)

Init ==
    /\ op = "none"
    /\ subject = PyNone
    /\ opt = NoOpt
    /\ result = Pass
    /\ ret = PyNone
    /\ held = PyNone
    /\ created = PyNone

\* no call is in progress, and the caller keeps no object
Idle == op = "none" /\ held = PyNone

\* a call of the check named f with the given arguments and outcome
Call(f, arg, o, r) ==
    /\ op' = f
    /\ subject' = arg
    /\ opt' = o
    /\ result' = r
    /\ ret' = PyNone
    /\ UNCHANGED <<held, created>>

CheckIsInstance ==
    /\ Idle
    /\ \E obj \in Objects, ci \in ClassInfos, sub \in BOOLEAN, name \in Names \cup {PyInt(1)} :
           Call("check_is_instance", obj,
                [NoOpt EXCEPT !.classinfo = ci, !.allow_subclass = sub, !.name = name],
                check_is_instance(obj, ci, sub, name))

CheckIsType ==
    /\ Idle
    /\ \E obj \in Objects, ci \in ClassInfos, name \in Names :
           Call("check_is_type", obj,
                [NoOpt EXCEPT !.classinfo = ci, !.allow_subclass = FALSE, !.name = name],
                check_is_type(obj, ci, name))

CheckIsNumber ==
    /\ Idle
    /\ \E num \in Objects, real \in BOOLEAN, name \in Names,
          def \in {PyStr("abstract"), PyStr("builtin"), PyStr("numpy"), PyStr("other")} :
           Call("check_is_number", num,
                [NoOpt EXCEPT !.definition = def, !.must_be_real = real, !.name = name],
                check_is_number(num, def, real, name))

CheckIsScalar ==
    /\ Idle
    /\ \E scalar \in Objects, real \in BOOLEAN, name \in Names :
           Call("check_is_scalar", scalar,
                [NoOpt EXCEPT !.must_be_real = real, !.name = name],
                check_is_scalar(scalar, real, name))

\* check_has_shape._shape_is_allowed, applied to a shape and a normalized spec
ShapeIsAllowed ==
    /\ Idle
    /\ \E a \in ConcreteShapes, b \in NormalizedSpecs :
           /\ op' = "_shape_is_allowed"
           /\ subject' = Zeros(a)
           /\ opt' = [NoOpt EXCEPT !.b = b]
           /\ result' = Pass
           /\ ret' = PyBool(_shape_is_allowed(a, b))
           /\ UNCHANGED <<held, created>>

CheckHasShape ==
    /\ Idle
    /\ \E a \in ArrayShapes, shape \in ShapeArgs, name \in Names :
           Call("check_has_shape", Zeros(a),
                [NoOpt EXCEPT !.shape = shape, !.name = name],
                check_has_shape(Zeros(a), shape, name))

CheckIsInRange ==
    /\ Idle
    /\ \E arr \in RangeArrays, rng \in Ranges, sl \in BOOLEAN, su \in BOOLEAN, name \in Names :
           Call("check_is_in_range", arr,
                [NoOpt EXCEPT !.rng = rng, !.strict_lower = sl, !.strict_upper = su,
                              !.name = name],
                check_is_in_range(arr, rng, sl, su, name))

CheckIsSorted ==
    /\ Idle
    /\ \E arr \in SortArrays, asc \in BOOLEAN, strict \in BOOLEAN, axis \in Axes,
          name \in Names :
           Call("check_is_sorted", arr,
                [NoOpt EXCEPT !.ascending = asc, !.strict = strict, !.axis = axis,
                              !.name = name],
                check_is_sorted(arr, asc, strict, axis, name))

CheckIsIntegerlike ==
    /\ Idle
    /\ \E arr \in IntegerlikeArrays, strict \in BOOLEAN, name \in Names :
           Call("check_is_integerlike", arr,
                [NoOpt EXCEPT !.strict = strict, !.name = name],
                check_is_integerlike(arr, strict, name))

CheckHasLength ==
    /\ Idle
    /\ \E arr \in LengthSubjects, exact \in ExactLengths, min \in BoundLengths,
          max \in BoundLengths, oned \in BOOLEAN, scalar \in BOOLEAN, name \in Names :
           Call("check_has_length", arr,
                [NoOpt EXCEPT !.exact_length = exact, !.min_length = min,
                              !.max_length = max, !.must_be_1d = oned,
                              !.allow_scalar = scalar, !.name = name],
                check_has_length(arr, exact, min, max, oned, scalar, name))

CheckIsSubdtype ==
    /\ Idle
    /\ \E obj \in SubdtypeSubjects, base \in BaseDtypes, name \in Names :
           Call("check_is_subdtype", obj,
                [NoOpt EXCEPT !.base_dtype = base, !.name = name],
                check_is_subdtype(obj, base, name))

CheckIsNumeric ==
    /\ Idle
    /\ \E arr \in DtypeArrays, name \in Names :
           Call("check_is_numeric", arr, [NoOpt EXCEPT !.name = name],
                check_is_numeric(arr, name))

CheckIsReal ==
    /\ Idle
    /\ \E arr \in DtypeArrays, name \in Names :
           Call("check_is_real", arr, [NoOpt EXCEPT !.name = name],
                check_is_real(arr, name))

ValidateShapeValue ==
    /\ Idle
    /\ \E shape \in ShapeValues :
           LET v == _validate_shape_value(shape)
           IN  /\ op' = "_validate_shape_value"
               /\ subject' = shape
               /\ opt' = NoOpt
               /\ result' = v.r
               /\ ret' = v.value
               /\ UNCHANGED <<held, created>>

CheckIsIterableOfSomeType ==
    /\ Idle
    /\ \E obj \in Iterables, some_type \in SomeTypes, sub \in BOOLEAN, name \in Names :
           Call("check_is_iterable_of_some_type", obj,
                [NoOpt EXCEPT !.classinfo = some_type, !.allow_subclass = sub, !.name = name],
                check_is_iterable_of_some_type(obj, some_type, sub, name))

CheckIsStringInIterable ==
    /\ Idle
    /\ \E string_in \in StringCandidates, string_iterable \in StringIterables, name \in Names :
           Call("check_is_string_in_iterable", string_in,
                [NoOpt EXCEPT !.string_iterable = string_iterable, !.name = name],
                check_is_string_in_iterable(string_in, string_iterable, name))

CheckIsFinite ==
    /\ Idle
    /\ \E arr \in FiniteArrays, name \in Names :
           Call("check_is_finite", arr, [NoOpt EXCEPT !.name = name],
                check_is_finite(arr, name))

\* strict is given by the caller or left to its default
CheckIsGreaterThan ==
    /\ Idle
    /\ \E arr \in RangeArrays, value \in CompareValues, given \in BOOLEAN,
          strict \in BOOLEAN, name \in Names :
           /\ given \/ strict = NoOpt.strict
           /\ Call("check_is_greater_than", arr,
                   [NoOpt EXCEPT !.value = value, !.strict = strict,
                                 !.strict_given = given, !.name = name],
                   check_is_greater_than(arr, value,
                                         IF given THEN strict ELSE StrictDefault, name))

CheckIsLessThan ==
    /\ Idle
    /\ \E arr \in RangeArrays, value \in CompareValues, given \in BOOLEAN,
          strict \in BOOLEAN, name \in Names :
           /\ given \/ strict = NoOpt.strict
           /\ Call("check_is_less_than", arr,
                   [NoOpt EXCEPT !.value = value, !.strict = strict,
                                 !.strict_given = given, !.name = name],
                   check_is_less_than(arr, value,
                                      IF given THEN strict ELSE StrictDefault, name))

\* the caller creates an object and keeps it
Hold ==
    /\ Idle
    /\ \E obj \in HeldObjects : held' = obj /\ created' = obj
    /\ UNCHANGED <<op, subject, opt, result, ret>>

\* the caller drops the object it kept
Release ==
    /\ op = "none"
    /\ held # PyNone
    /\ held' = PyNone
    /\ created' = PyNone
    /\ UNCHANGED <<op, subject, opt, result, ret>>

\* check_has_length called with the object the caller keeps
HeldCheckHasLength ==
    /\ op = "none"
    /\ held # PyNone
    /\ \E exact \in {PyNone, PyInt(1)}, oned \in BOOLEAN, scalar \in BOOLEAN, name \in Names :
           /\ op' = "check_has_length"
           /\ subject' = held
           /\ opt' = [NoOpt EXCEPT !.exact_length = exact, !.must_be_1d = oned,
                                   !.allow_scalar = scalar, !.name = name]
           /\ result' = check_has_length(held, exact, PyNone, PyNone, oned, scalar, name)
           /\ ret' = PyNone
           /\ held' = arr_after(held, scalar)
           /\ created' = created

\* check_is_scalar called with the object the caller keeps; the function
\* only reads its argument
HeldCheckIsScalar ==
    /\ op = "none"
    /\ held # PyNone
    /\ \E real \in BOOLEAN, name \in Names :
           /\ op' = "check_is_scalar"
           /\ subject' = held
           /\ opt' = [NoOpt EXCEPT !.must_be_real = real, !.name = name]
           /\ result' = check_is_scalar(held, real, name)
           /\ ret' = PyNone
           /\ UNCHANGED <<held, created>>

\* the call returns or raises to its caller; nothing of it remains
Done ==
    /\ op # "none"
    /\ op' = "none"
    /\ subject' = PyNone
    /\ opt' = NoOpt
    /\ result' = Pass
    /\ ret' = PyNone
    /\ UNCHANGED <<held, created>>

Next ==
    \/ Done
    \/ CheckIsInstance
    \/ CheckIsType
    \/ CheckIsNumber
    \/ CheckIsScalar
    \/ ShapeIsAllowed
    \/ CheckHasShape
    \/ CheckIsInRange
    \/ CheckIsSorted
    \/ CheckIsIntegerlike
    \/ CheckHasLength
    \/ CheckIsSubdtype
    \/ CheckIsNumeric
    \/ CheckIsReal
    \/ ValidateShapeValue
    \/ CheckIsGreaterThan
    \/ CheckIsIterableOfSomeType
    \/ CheckIsStringInIterable
    \/ CheckIsFinite
    \/ CheckIsLessThan
    \/ Hold
    \/ Release
    \/ HeldCheckHasLength
    \/ HeldCheckIsScalar

Spec == Init /\ [][Next]_vars

-----------------------------------------------------------------------------
(* Properties of the instance and number checks *)

NameIsStr == IsSubclass(opt.name.cls, "str")

ValidDefinition == opt.definition.s \in {"abstract", "builtin", "numpy"}

\* the candidate classes of the call
Candidates == {opt.classinfo.classes[i] : i \in 1..Len(opt.classinfo.classes)}

\* C10: check_is_instance with allow_subclass=True passes iff the object is an
\* instance of a candidate class or of a subclass of one; with
\* allow_subclass=False it passes iff the exact type of the object is one of
\* the candidate classes; otherwise it raises TypeError.  check_is_type has
\* the outcome of check_is_instance with allow_subclass=False.
C10_InstanceOrExactType ==
    /\ (op = "check_is_instance" /\ NameIsStr) =>
          /\ Passed(result) <=>
                IF opt.allow_subclass
                THEN \E c \in Candidates : IsSubclass(subject.cls, c)
                ELSE subject.cls \in Candidates
          /\ ~Passed(result) => result.kind = "TypeError"
    /\ op = "check_is_type" =>
          /\ Passed(result) <=> subject.cls \in Candidates
          /\ ~Passed(result) => result.kind = "TypeError"

\* an instance of a proper subclass (True for int) is rejected by the exact test
C10_Witness ==
    /\ op = "check_is_instance"
    /\ ~opt.allow_subclass
    /\ subject = PyBool(TRUE)
    /\ opt.classinfo = Class("int")
    /\ result.kind = "TypeError"

\* C6 as stated: check_is_number raises TypeError for True and False under
\* every definition and for both values of must_be_real.
C6_BoolNeverNumber ==
    (op = "check_is_number" /\ subject.cls = "bool" /\ ValidDefinition) =>
        result.kind = "TypeError"

\* C6 amended: check_is_number raises TypeError for True and False under the
\* definition 'numpy' only; under 'abstract' and 'builtin' a bool passes,
\* because bool is a subclass of int.  A numpy.bool_ raises TypeError under
\* every definition.
C6_BoolIsNumberUnlessNumpy ==
    (op = "check_is_number" /\ ValidDefinition) =>
        /\ subject.cls = "bool" =>
              (result.kind = "TypeError" <=> opt.definition.s = "numpy")
        /\ subject.cls = "bool" => (Passed(result) <=> opt.definition.s # "numpy")
        /\ subject.cls = "np.bool_" => result.kind = "TypeError"

C6_Witness ==
    /\ op = "check_is_number"
    /\ subject = PyBool(TRUE)
    /\ opt.definition.s = "abstract"
    /\ opt.must_be_real
    /\ Passed(result)

\* C7 as stated: check_is_scalar passes exactly for a bare number that
\* check_is_number accepts and for a 0-dimensional array whose dtype is real
\* (must_be_real) or numeric; every other input, an array of dimensionality
\* >= 1 in particular, raises TypeError.
C7_ScalarTypeError ==
    op = "check_is_scalar" =>
        /\ Passed(result) <=>
              IF subject.cls = "ndarray"
              THEN /\ Len(subject.shape) = 0
                   /\ IsSubdtype(subject.dtype,
                                 IF opt.must_be_real THEN "np.floating" ELSE "np.number")
                      \/ IsSubdtype(subject.dtype, "np.integer")
              ELSE IsSubclass(subject.cls, IF opt.must_be_real THEN "Real" ELSE "Number")
        /\ ~Passed(result) => result.kind = "TypeError"

-----------------------------------------------------------------------------
(* Properties of the shape check *)

\* a shape spec of the data model: an int >= -1 or a tuple of ints >= -1
IsShapeSpec(e) ==
    \/ IsSubclass(e.cls, "int") /\ e.data[1] >= Num(-1)
    \/ /\ e.cls = "tuple"
       /\ \A i \in 1..Len(e.items) :
             IsSubclass(e.items[i].cls, "int") /\ e.items[i].data[1] >= Num(-1)

\* the tuple form of a shape spec
Normalized(e) ==
    IF e.cls = "tuple" THEN [i \in 1..Len(e.items) |-> e.items[i].data[1] \div 2]
    ELSE <<e.data[1] \div 2>>

\* shape s is allowed by the normalized spec w
Matches(s, w) ==
    Len(s) = Len(w) /\ \A i \in 1..Len(s) : s[i] = w[i] \/ w[i] = -1

\* C1: a concrete shape s is allowed by a normalized spec w iff len(s) = len(w)
\* and at every position s[i] = w[i] or w[i] = -1; shapes of different length
\* never match, the empty tuple against a non-empty spec included.
C1_ShapeIsAllowed ==
    /\ op = "_shape_is_allowed" =>
          /\ ret = PyBool(Matches(subject.shape, opt.b))
          /\ Len(subject.shape) # Len(opt.b) => ret = PyBool(FALSE)
    /\ (op = "check_has_shape" /\ IsShapeSpec(opt.shape)) =>
          (Passed(result) <=> Matches(subject.shape, Normalized(opt.shape)))

\* the empty tuple is not allowed by a spec of one wildcard
C1_Witness ==
    /\ op = "_shape_is_allowed"
    /\ subject.shape = <<>>
    /\ opt.b = <<-1>>
    /\ ret = PyBool(FALSE)

ShapeIsList == op = "check_has_shape" /\ opt.shape.cls = "list"

AllShapeSpecs == \A i \in 1..Len(opt.shape.items) : IsShapeSpec(opt.shape.items[i])

\* C2: with a list of shape specs, check_has_shape succeeds iff it succeeds
\* with at least one entry of the list given alone; otherwise it fails.
C2_ListIsAny ==
    (ShapeIsList /\ AllShapeSpecs) =>
        /\ Passed(result) <=>
              \E i \in 1..Len(opt.shape.items) :
                  Passed(check_has_shape(subject, opt.shape.items[i], opt.name))
        /\ ~Passed(result) => result.kind = "ValueError"

\* the second entry of the list is the one that matches
C2_Witness ==
    /\ ShapeIsList /\ AllShapeSpecs
    /\ Len(opt.shape.items) = 2
    /\ ~Passed(check_has_shape(subject, opt.shape.items[1], opt.name))
    /\ Passed(check_has_shape(subject, opt.shape.items[2], opt.name))
    /\ Passed(result)

\* the permutations of 1..n
Perms(n) == {f \in [1..n -> 1..n] : \A i, j \in 1..n : f[i] = f[j] => i = j}

\* the list l in the order p
Permuted(l, p) == PyList([i \in 1..Len(l.items) |-> l.items[p[i]]])

\* every order of the list of the call gives the kind of outcome of the call
OrderIsIrrelevant ==
    \A p \in Perms(Len(opt.shape.items)) :
        check_has_shape(subject, Permuted(opt.shape, p), opt.name).kind = result.kind

\* C3 as stated: every permutation of a list of shape specs gives the same
\* result, pass or the same kind of failure.
C3_AnyOrder == ShapeIsList => OrderIsIrrelevant

\* entry i of the list decides the call: it is rejected by
\* _validate_shape_value, or it is allowed for the shape of the array
Rejected(i) == ~Passed(_validate_shape_value(opt.shape.items[i]).r)
Decides(i) ==
    \/ Rejected(i)
    \/ Matches(subject.shape, Dims(_validate_shape_value(opt.shape.items[i]).value))

\* C3 amended: every permutation of a list gives the same result when all its
\* entries are valid shape specs.  In general the outcome is that of the first
\* entry, in list order, that is rejected by _validate_shape_value (its error
\* is raised) or that matches the shape (the call passes); with no such entry
\* the call raises ValueError.
C3_FirstDecisiveEntry ==
    ShapeIsList =>
        /\ AllShapeSpecs => OrderIsIrrelevant
        /\ \A i \in 1..Len(opt.shape.items) :
              (Decides(i) /\ \A j \in 1..(i - 1) : ~Decides(j)) =>
                  result = IF Rejected(i) THEN _validate_shape_value(opt.shape.items[i]).r
                           ELSE Pass
        /\ (\A i \in 1..Len(opt.shape.items) : ~Decides(i)) => result.kind = "ValueError"

\* an invalid entry after the matching one is never validated
C3_Witness ==
    /\ ShapeIsList
    /\ Len(opt.shape.items) = 2
    /\ IsShapeSpec(opt.shape.items[1])
    /\ opt.shape.items[2] = PyInt(-2)
    /\ Passed(result)

-----------------------------------------------------------------------------
(* Properties of the range, sort, integer-like and length checks *)

\* the elements of the subject of the call
Elements == cast_to_ndarray(subject).data
ElementsOf(o) == {cast_to_ndarray(o).data[i] : i \in 1..Len(cast_to_ndarray(o).data)}

\* rng is [lo, hi] with lo <= hi
ValidRange ==
    /\ opt.rng.cls = "list"
    /\ Len(opt.rng.items) = 2
    /\ opt.rng.items[1].data[1] # NaN /\ opt.rng.items[2].data[1] # NaN
    /\ opt.rng.items[1].data[1] <= opt.rng.items[2].data[1]

\* C4: for a valid range [lo, hi], check_is_in_range passes iff every element
\* e satisfies e >= lo (e > lo when strict_lower) and e <= hi (e < hi when
\* strict_upper); otherwise it raises ValueError.
C4_InRange ==
    (op = "check_is_in_range" /\ ValidRange) =>
        LET lo == opt.rng.items[1].data[1]
            hi == opt.rng.items[2].data[1]
        IN  /\ Passed(result) <=>
                  \A e \in ElementsOf(subject) :
                      /\ e # NaN
                      /\ IF opt.strict_lower THEN e > lo ELSE e >= lo
                      /\ IF opt.strict_upper THEN e < hi ELSE e <= hi
            /\ ~Passed(result) => result.kind = "ValueError"

\* with the default flags an element equal to an endpoint is in the range
C4_Witness ==
    /\ op = "check_is_in_range" /\ ValidRange
    /\ ~opt.strict_lower /\ ~opt.strict_upper
    /\ opt.rng.items[2].data[1] \in ElementsOf(subject)
    /\ opt.rng.items[1].data[1] \in ElementsOf(subject)
    /\ opt.rng.items[1].data[1] < opt.rng.items[2].data[1]
    /\ Passed(result)

\* the operator the claim gives for (ascending, strict)
Ordered(x, y) ==
    /\ x # NaN /\ y # NaN
    /\ CASE opt.ascending /\ ~opt.strict -> x <= y
         [] opt.ascending /\ opt.strict -> x < y
         [] ~opt.ascending /\ ~opt.strict -> x >= y
         [] ~opt.ascending /\ opt.strict -> x > y

\* the axis of the call is None or an integer in [-ndim, ndim - 1]
SortedArray == cast_to_ndarray(subject)
SortedNdim == Len(SortedArray.shape)
AxisIsValid ==
    \/ opt.axis.cls = "NoneType"
    \/ /\ opt.axis.cls = "int"
       /\ opt.axis.data[1] \div 2 \in (-SortedNdim)..(SortedNdim - 1)

\* element (i, j) of a 2-D array, 0-based
At(A, i, j) == A.data[i * A.shape[2] + j + 1]

\* every element and its successor along the axis of the call are ordered
SortedAlongAxis ==
    LET A == SortedArray
        ax == IF opt.axis.cls = "NoneType" THEN -1 ELSE opt.axis.data[1] \div 2
    IN  IF opt.axis.cls = "NoneType" \/ SortedNdim = 1
        THEN \A i \in 1..(Len(A.data) - 1) : Ordered(A.data[i], A.data[i + 1])
        ELSE IF ax \in {0, -2}
        THEN \A i \in 0..(A.shape[1] - 2), j \in 0..(A.shape[2] - 1) :
                 Ordered(At(A, i, j), At(A, i + 1, j))
        ELSE \A i \in 0..(A.shape[1] - 1), j \in 0..(A.shape[2] - 2) :
                 Ordered(At(A, i, j), At(A, i, j + 1))

\* the number of elements along the axis of the call
LenAlongAxis ==
    IF opt.axis.cls = "NoneType" THEN Len(SortedArray.data)
    ELSE SortedArray.shape[(((opt.axis.data[1] \div 2) + SortedNdim) % SortedNdim) + 1]

\* C5: on an array of dimensionality >= 1, check_is_sorted passes iff every
\* element along the checked axis and its successor satisfy <= (ascending),
\* < (ascending, strict), >= (descending) or > (descending, strict); otherwise
\* it raises ValueError.  A 0-dimensional array always passes, and so does an
\* array with fewer than two elements along the axis.
C5_Sorted ==
    op = "check_is_sorted" =>
        /\ SortedNdim = 0 => Passed(result)
        /\ (SortedNdim >= 1 /\ AxisIsValid) =>
              /\ Passed(result) <=> SortedAlongAxis
              /\ ~Passed(result) => result.kind = "ValueError"
              /\ LenAlongAxis < 2 => Passed(result)

\* a 2-D array sorted along its rows but not along its columns
C5_Witness ==
    /\ op = "check_is_sorted"
    /\ subject.shape = <<2, 2>>
    /\ opt.axis = PyInt(0)
    /\ opt.ascending /\ opt.strict
    /\ subject.data[1] < subject.data[2] /\ subject.data[3] < subject.data[4]
    /\ result.kind = "ValueError"

\* an element that differs from its floor
Fractional(x) == x = NaN \/ (x \notin {PosInf, NegInf} /\ x % 2 = 1)

HasLen == subject.cls \in {"list", "tuple"} \/ (subject.cls = "ndarray" /\ Len(subject.shape) >= 1)
LenOfSubject == IF subject.cls = "ndarray" THEN subject.shape[1] ELSE Len(subject.items)

\* exact_length is absent, an integer or a set of integers
Given(x) == x.cls # "NoneType"
ExactIsValid ==
    \/ ~Given(opt.exact_length)
    \/ opt.exact_length.cls = "int"
    \/ /\ opt.exact_length.cls = "list"
       /\ \A i \in 1..Len(opt.exact_length.items) : opt.exact_length.items[i].cls = "int"
ExactSet ==
    IF opt.exact_length.cls = "int" THEN {opt.exact_length.data[1] \div 2}
    ELSE {opt.exact_length.items[i].data[1] \div 2 : i \in 1..Len(opt.exact_length.items)}
MinOpt == opt.min_length.data[1] \div 2
MaxOpt == opt.max_length.data[1] \div 2
MinAboveMax == Given(opt.min_length) /\ Given(opt.max_length) /\ MinOpt > MaxOpt

\* C9: for a subject of length n and valid constraints, check_has_length
\* passes iff (exact_length is absent or n is a member of it) and (min_length
\* is absent or n >= min_length) and (max_length is absent or n <= max_length);
\* otherwise it raises a ValueError that cites n.  With min_length >
\* max_length the call never passes.
C9_HasLength ==
    op = "check_has_length" =>
        /\ (HasLen /\ ExactIsValid /\ ~MinAboveMax /\ ~opt.must_be_1d) =>
              /\ Passed(result) <=>
                    /\ Given(opt.exact_length) => LenOfSubject \in ExactSet
                    /\ Given(opt.min_length) => LenOfSubject >= MinOpt
                    /\ Given(opt.max_length) => LenOfSubject <= MaxOpt
              /\ ~Passed(result) =>
                    result.kind = "ValueError" /\ result.cite = <<LenOfSubject>>
        /\ MinAboveMax => ~Passed(result)

\* a length of 3 is a member of the exact lengths [2, 3]
C9_Witness ==
    /\ op = "check_has_length"
    /\ HasLen /\ LenOfSubject = 3
    /\ opt.exact_length = PyList(<<PyInt(2), PyInt(3)>>)
    /\ opt.min_length = PyInt(3)
    /\ opt.max_length = PyInt(3)
    /\ Passed(result)

-----------------------------------------------------------------------------
(* Properties of the dtype checks *)

\* the subject of check_is_subdtype has a dtype: it is a dtype, an array, or
\* an object np.dtype converts
HasDtype == subject.cls \in {"dtype", "ndarray"} \/ Passed(np_dtype(subject).r)
SubjectDtype ==
    IF subject.cls \in {"dtype", "ndarray"} THEN subject.dtype ELSE np_dtype(subject).value

\* the entries of a base_dtype list in the order p
Reordered(base, p) == BaseList([i \in 1..Len(base) |-> base[p[i]]])

\* C11: check_is_subdtype succeeds when the dtype of the subject (the dtype
\* of the array when the subject is an array) is a sub-type of at least one
\* entry of base_dtype, and raises a TypeError otherwise; the outcome is the
\* same for every order of the entries of a list
C11_SubdtypeOfAny ==
    (op = "check_is_subdtype" /\ HasDtype) =>
        LET base == opt.base_dtype.dtypes
        IN  /\ Passed(result) <=> \E i \in 1..Len(base) : IsSubdtype(SubjectDtype, base[i])
            /\ ~Passed(result) => result.kind = "TypeError"
            /\ \A p \in Perms(Len(base)) :
                   check_is_subdtype(subject, Reordered(base, p), opt.name) = result

\* an array passes by the second entry of the list, not by the first
C11_Witness ==
    /\ op = "check_is_subdtype"
    /\ subject.cls = "ndarray"
    /\ opt.base_dtype.isList
    /\ Len(opt.base_dtype.dtypes) = 2
    /\ ~IsSubdtype(subject.dtype, opt.base_dtype.dtypes[1])
    /\ IsSubdtype(subject.dtype, opt.base_dtype.dtypes[2])
    /\ Passed(result)

\* the dtypes of the early returns of check_is_numeric and check_is_real
CommonDtypes == {"int32", "int64", "float32", "float64", "complex128"}

\* C12: for every array dtype check_is_numeric passes exactly when
\* check_is_subdtype against np.number passes, and check_is_real exactly when
\* check_is_subdtype against (np.floating, np.integer) passes, the early
\* return included; a failure is a TypeError with the message
\* "{name} must be numeric." / "{name} must have real numbers."
C12_EarlyReturnAgrees ==
    LET arr == AsArray(subject)
    IN  /\ op = "check_is_numeric" =>
               /\ Passed(result) <=> Passed(check_is_subdtype(arr, Base("np.number"), opt.name))
               /\ ~Passed(result) =>
                      result = Raise("TypeError", opt.name.s, "must be numeric.", <<>>, "")
        /\ op = "check_is_real" =>
               /\ Passed(result) <=>
                      Passed(check_is_subdtype(arr, BaseList(<<"np.floating", "np.integer">>),
                                               opt.name))
               /\ ~Passed(result) =>
                      result = Raise("TypeError", opt.name.s, "must have real numbers.", <<>>, "")

\* check_is_numeric returns early for an array of a common dtype, as the
\* general subtype path would have it
C12_Witness ==
    /\ op = "check_is_numeric"
    /\ subject.cls = "ndarray"
    /\ subject.dtype \in CommonDtypes
    /\ Passed(check_is_subdtype(subject, Base("np.number"), opt.name))
    /\ Passed(result)

-----------------------------------------------------------------------------
(* Properties of the names in the messages *)

\* the failure of check_has_length is one of its two checks of the subject
\* itself: that it is a sequence or an array, and that it is one-dimensional
SubjectFailure ==
    /\ ~Passed(result)
    /\ result.msg \in {"must be an instance of", "has shape which is not allowed."}

\* C13: a failure raised about the subject starts with the name given by the
\* caller, on every path: check_is_integerlike (strict=True included),
\* check_is_scalar (a subject that is not an array included) and
\* check_has_length (must_be_1d=True included)
C13_NameIsReported ==
    /\ (op \in {"check_is_integerlike", "check_is_scalar"} /\ ~Passed(result)) =>
           result.name = opt.name.s
    /\ (op = "check_has_length" /\ SubjectFailure) => result.name = opt.name.s

-----------------------------------------------------------------------------
(* Properties of the validation of a shape value *)

IsInt(e) == IsSubclass(e.cls, "int")
IsTuple(e) == IsSubclass(e.cls, "tuple")
AllInts(e) == \A i \in 1..Len(e.items) : IsInt(e.items[i])
SomeBelow(e) == \E i \in 1..Len(e.items) : Lt(e.items[i].data[1], Num(-1))

\* C14: the outcomes of _validate_shape_value: None raises a TypeError; an
\* int >= -1 returns the 1-tuple holding it; a tuple of ints >= -1 is returned
\* unchanged; a value that is neither an int nor a tuple, and a tuple with an
\* entry that is not an int, raise a TypeError; an int < -1 and a tuple of
\* ints with an entry < -1 raise a ValueError; the RuntimeError of the last
\* line is never raised
C14_ShapeValueOutcomes ==
    op = "_validate_shape_value" =>
        /\ subject.cls = "NoneType" => result.kind = "TypeError"
        /\ (IsInt(subject) /\ Ge(subject.data[1], Num(-1))) =>
               Passed(result) /\ ret = PyTuple(<<subject>>)
        /\ (IsTuple(subject) /\ AllInts(subject) /\ ~SomeBelow(subject)) =>
               Passed(result) /\ ret = subject
        /\ (~IsInt(subject) /\ ~IsTuple(subject)) => result.kind = "TypeError"
        /\ (IsTuple(subject) /\ ~AllInts(subject)) => result.kind = "TypeError"
        /\ (IsInt(subject) /\ Lt(subject.data[1], Num(-1))) => result.kind = "ValueError"
        /\ (IsTuple(subject) /\ AllInts(subject) /\ SomeBelow(subject)) =>
               result.kind = "ValueError"
        /\ result.kind # "RuntimeError"

-----------------------------------------------------------------------------
(* Properties of the objects a caller keeps *)

\* the outcome of the call in the state, for the argument obj
OutcomeFor(obj) ==
    IF op = "check_has_length"
    THEN check_has_length(obj, opt.exact_length, opt.min_length, opt.max_length,
                          opt.must_be_1d, opt.allow_scalar, opt.name)
    ELSE check_is_scalar(obj, opt.must_be_real, opt.name)

-----------------------------------------------------------------------------
(* Properties of the order of the sub-checks of check_is_in_range *)

RangeArray == cast_to_ndarray(opt.rng)
RangeHasShape == RangeArray.shape = <<2>>
RangeIsSorted == RangeHasShape /\ Le(RangeArray.data[1], RangeArray.data[2])
BelowLower ==
    \E e \in ElementsOf(subject) :
        IF opt.strict_lower THEN ~Gt(e, RangeArray.data[1]) ELSE ~Ge(e, RangeArray.data[1])
AboveUpper ==
    \E e \in ElementsOf(subject) :
        IF opt.strict_upper THEN ~Lt(e, RangeArray.data[2]) ELSE ~Le(e, RangeArray.data[2])
LowerMessages == {"values must all be greater than", "values must all be greater than or equal to"}
UpperMessages == {"values must all be less than", "values must all be less than or equal to"}

\* C16: check_is_in_range makes its sub-checks in the order shape of the
\* range, sortedness of the range, lower bound, upper bound, and the first
\* one violated is the failure: a range that has not the shape (2,) or is not
\* ascending fails with a ValueError named Range whatever the array holds,
\* and an array with an element below lo and one above hi is reported with
\* the message of the lower bound
C16_FirstViolatedSubcheck ==
    op = "check_is_in_range" =>
        /\ ~RangeHasShape =>
               /\ result.kind = "ValueError" /\ result.name = "Range"
               /\ result.msg = "has shape which is not allowed."
        /\ (RangeHasShape /\ ~RangeIsSorted) =>
               /\ result.kind = "ValueError" /\ result.name = "Range"
               /\ result.msg = "must be sorted in ascending order."
        /\ (RangeIsSorted /\ BelowLower) =>
               /\ result.kind = "ValueError" /\ result.name = opt.name.s
               /\ result.msg \in LowerMessages
        /\ (RangeIsSorted /\ ~BelowLower /\ AboveUpper) =>
               /\ result.kind = "ValueError" /\ result.name = opt.name.s
               /\ result.msg \in UpperMessages
        /\ (RangeIsSorted /\ ~BelowLower /\ ~AboveUpper) => Passed(result)

\* an array with an element below the lower bound and another above the
\* upper bound is reported with the message of the lower bound
C16_Witness ==
    /\ op = "check_is_in_range"
    /\ RangeIsSorted
    /\ \E e \in ElementsOf(subject) : Lt(e, RangeArray.data[1])
    /\ \E e \in ElementsOf(subject) : Gt(e, RangeArray.data[2])
    /\ result.msg \in LowerMessages

-----------------------------------------------------------------------------
(* Properties of the comparisons with a value *)

\* the classes of the real numbers: int and float, and the integer and
\* floating NumPy scalars
RealClasses ==
    {"int", "float", "np.int64", "np.int32", "np.uint8", "np.float64", "np.float32"}
ValueIsReal == opt.value.cls \in RealClasses

\* strict as the call has it: the default is strict=True
StrictOfCall == IF opt.strict_given THEN opt.strict ELSE TRUE

-----------------------------------------------------------------------------
(* Properties of the axis of check_is_sorted *)

\* the axis is neither None nor -1
AxisGiven == opt.axis \notin {PyNone, PyInt(-1)}

\* the axis is a whole number, and its value
IntegerAxis == opt.axis.cls \in {"int", "float"} /\ IsWhole(opt.axis.data[1])
AxisValue == opt.axis.data[1] \div 2
AxisRange == (-SortedNdim)..(SortedNdim - 1)

OutOfBounds ==
    Raise("ValueError", "Axis", "is out of bounds for ndim", <<AxisValue, SortedNdim>>, "")

\* the outcome of the call of the state with another axis, or another array
WithAxis(axis) == check_is_sorted(subject, opt.ascending, opt.strict, axis, opt.name)
WithAxisOf(arr) == check_is_sorted(arr, opt.ascending, opt.strict, opt.axis, opt.name)
Flattened ==
    check_is_sorted(Flatten(SortedArray), opt.ascending, opt.strict, PyInt(-1), opt.name)

\* C18 as stated: for every array and every axis other than -1 and None, an
\* axis outside [-ndim, ndim-1] gives the ValueError "Axis {axis} is out of
\* bounds for ndim {ndim}" and an axis that is not integer-like gives a
\* failure, whatever the elements are; an in-range negative axis k gives the
\* outcome of the axis ndim + k; axis=None gives the outcome for the
\* flattened array
C18_AxisValidated ==
    op = "check_is_sorted" =>
        /\ (AxisGiven /\ IntegerAxis /\ AxisValue \notin AxisRange) => result = OutOfBounds
        /\ (AxisGiven /\ ~IntegerAxis) => ~Passed(result)
        /\ (AxisGiven /\ IntegerAxis /\ AxisValue \in AxisRange /\ AxisValue < 0) =>
               result = WithAxis(PyInt(SortedNdim + AxisValue))
        /\ opt.axis = PyNone => result = Flattened

\* C18, for arrays of dimensionality >= 1: the axis is validated as above;
\* a 0-dimensional array passes before the axis is looked at, whatever the
\* axis is
C18_AxisValidatedUnlessScalar ==
    op = "check_is_sorted" =>
        /\ SortedNdim = 0 => Passed(result)
        /\ (SortedNdim >= 1 /\ AxisGiven /\ IntegerAxis /\ AxisValue \notin AxisRange) =>
               result = OutOfBounds
        /\ (SortedNdim >= 1 /\ AxisGiven /\ ~IntegerAxis) =>
               ~Passed(result) /\ result = WithAxisOf(Zeros(SortedArray.shape))
        /\ (AxisGiven /\ IntegerAxis /\ AxisValue \in AxisRange /\ AxisValue < 0) =>
               result = WithAxis(PyInt(SortedNdim + AxisValue))
        /\ opt.axis = PyNone => result = Flattened

\* an array that is not sorted, checked along an axis that is out of bounds
C18_Witness ==
    /\ op = "check_is_sorted"
    /\ SortedNdim >= 1
    /\ AxisGiven /\ IntegerAxis /\ AxisValue \notin AxisRange
    /\ ~Passed(WithAxis(PyInt(-1)))
    /\ result = OutOfBounds

-----------------------------------------------------------------------------
(* Properties of the length of a scalar *)

\* the subject is a bare number or a 0-dimensional array
ScalarSubject ==
    \/ IsSubclass(subject.cls, "Number")
    \/ subject.cls = "ndarray" /\ Len(subject.shape) = 0

\* the constraints of the call hold for the length n
LengthSatisfies(n) ==
    /\ Given(opt.exact_length) => n \in ExactSet
    /\ Given(opt.min_length) => n >= MinOpt
    /\ Given(opt.max_length) => n <= MaxOpt

\* C19: for a bare number or a 0-dimensional array, check_has_length with
\* allow_scalar=True passes exactly when the length 1 satisfies the exact, min
\* and max constraints, and with allow_scalar=False it fails whatever the
\* constraints are; with must_be_1d=True every other subject whose shape is
\* not one-dimensional fails as well
C19_ScalarHasLengthOne ==
    op = "check_has_length" =>
        /\ (ScalarSubject /\ opt.allow_scalar /\ ExactIsValid) =>
               (Passed(result) <=> LengthSatisfies(1))
        /\ (ScalarSubject /\ ~opt.allow_scalar) => ~Passed(result)
        /\ (~ScalarSubject /\ opt.must_be_1d /\ Len(cast_to_ndarray(subject).shape) # 1) =>
               ~Passed(result)

\* a 0-dimensional array passes with allow_scalar=True, must_be_1d=True and
\* an exact length of 1
C19_Witness ==
    /\ op = "check_has_length"
    /\ subject.cls = "ndarray" /\ Len(subject.shape) = 0
    /\ opt.allow_scalar /\ opt.must_be_1d
    /\ opt.exact_length = PyInt(1)
    /\ Passed(result)
    /\ ~Passed(check_has_length(subject, opt.exact_length, opt.min_length, opt.max_length,
                                opt.must_be_1d, FALSE, opt.name))

-----------------------------------------------------------------------------
(* Properties of the check of the items of an iterable *)

SubjectIsIterable == IsSubclass(subject.cls, "Iterable")
SubjectItems == IterItems(subject)

\* item i of the subject fails check_is_instance
Offends(i) ==
    ~Passed(check_is_instance(SubjectItems[i], opt.classinfo, opt.allow_subclass, opt.name))
Offenders == {i \in 1..Len(SubjectItems) : Offends(i)}
FirstOffender == CHOOSE i \in Offenders : \A j \in Offenders : i <= j

\* C20: check_is_iterable_of_some_type raises a TypeError with the name of
\* the caller when the subject is not iterable; otherwise it checks the items
\* in iteration order and raises at the first one that fails
\* check_is_instance, a TypeError named "All items of {name}" that reports
\* the type of that item; it passes iff the subject is iterable and every
\* item passes, so an empty iterable passes
C20_FirstOffendingItem ==
    op = "check_is_iterable_of_some_type" =>
        /\ ~SubjectIsIterable =>
               /\ result.kind = "TypeError" /\ result.name = opt.name.s
               /\ result.got = subject.cls
        /\ (SubjectIsIterable /\ Offenders # {}) =>
               /\ result.kind = "TypeError"
               /\ result.name = "All items of " \o opt.name.s
               /\ result.got = SubjectItems[FirstOffender].cls
        /\ Passed(result) <=> (SubjectIsIterable /\ Offenders = {})
        /\ (SubjectIsIterable /\ Len(SubjectItems) = 0) => Passed(result)

\* the second and the third item offend and are of different types: the
\* type of the second is reported
C20_Witness ==
    /\ op = "check_is_iterable_of_some_type"
    /\ SubjectIsIterable
    /\ Offenders = {2, 3}
    /\ SubjectItems[2].cls # SubjectItems[3].cls
    /\ result.got = SubjectItems[2].cls

-----------------------------------------------------------------------------
(* Properties of the membership of a string *)

CandidateIsText == IsSubclass(subject.cls, "str")
AllowedItems == IterItems(opt.string_iterable)
AllowedIsTexts ==
    /\ IsSubclass(opt.string_iterable.cls, "Iterable")
    /\ \A i \in 1..Len(AllowedItems) : IsSubclass(AllowedItems[i].cls, "str")
\* the candidate is one of the items the iterable yields
IsMember == \E i \in 1..Len(AllowedItems) : AllowedItems[i].s = subject.s

\* C21: check_is_string_in_iterable checks, in this order, that the
\* candidate is text (TypeError), that allowed is an iterable of texts
\* (TypeError) and that the candidate is a member of allowed (ValueError); it
\* passes iff the three hold
C21_TextThenItemsThenMember ==
    op = "check_is_string_in_iterable" =>
        /\ ~CandidateIsText => result.kind = "TypeError" /\ result.name = opt.name.s
        /\ (CandidateIsText /\ ~AllowedIsTexts) => result.kind = "TypeError"
        /\ (CandidateIsText /\ AllowedIsTexts /\ ~IsMember) => result.kind = "ValueError"
        /\ Passed(result) <=> (CandidateIsText /\ AllowedIsTexts /\ IsMember)

-----------------------------------------------------------------------------
(* Properties of the non-finite values *)

\* the checks other than check_is_finite that the claim names: those that
\* look at the type only, and those that look at the values
TypeChecks == {"check_is_numeric", "check_is_real", "check_is_number", "check_is_scalar"}
ValueChecks ==
    {"check_is_sorted", "check_is_in_range", "check_is_greater_than", "check_is_less_than",
     "check_is_integerlike"}

\* the subject holds floating point elements, so that one of them can be
\* replaced by a non-finite value
HoldsFloats ==
    \/ subject.cls \in {"float", "np.float64", "np.float32"}
    \/ subject.cls = "ndarray" /\ subject.dtype \in {"float64", "float32"}
Positions == 1..Len(subject.data)
Replaced(i, x) == [subject EXCEPT !.data[i] = x]

\* the outcome of the call of the state for another subject
Rerun(obj) ==
    CASE op = "check_is_numeric" -> check_is_numeric(obj, opt.name)
      [] op = "check_is_real" -> check_is_real(obj, opt.name)
      [] op = "check_is_number" ->
             check_is_number(obj, opt.definition, opt.must_be_real, opt.name)
      [] op = "check_is_scalar" -> check_is_scalar(obj, opt.must_be_real, opt.name)
      [] op = "check_is_sorted" ->
             check_is_sorted(obj, opt.ascending, opt.strict, opt.axis, opt.name)
      [] op = "check_is_in_range" ->
             check_is_in_range(obj, opt.rng, opt.strict_lower, opt.strict_upper, opt.name)
      [] op = "check_is_greater_than" ->
             check_is_greater_than(obj, opt.value, StrictOfCall, opt.name)
      [] op = "check_is_less_than" ->
             check_is_less_than(obj, opt.value, StrictOfCall, opt.name)
      [] op = "check_is_integerlike" -> check_is_integerlike(obj, opt.strict, opt.name)
      [] OTHER -> check_is_finite(obj, opt.name)

\* check_is_finite raises a ValueError iff an element is +inf, -inf or NaN
FiniteIffNoneIsNonFinite ==
    op = "check_is_finite" =>
        /\ result.kind = "ValueError" <=>
               \E e \in ElementsOf(subject) : e \in {PosInf, NegInf, NaN}
        /\ Passed(result) \/ result.kind = "ValueError"

\* C22 as stated: check_is_finite raises a ValueError iff an element is not
\* finite, and for every other check, replacing an element of a passing
\* input by a non-finite value leaves the call passing
C22_OnlyFiniteRejects ==
    /\ FiniteIffNoneIsNonFinite
    /\ (op \in TypeChecks \cup ValueChecks /\ HoldsFloats /\ Passed(result)) =>
           \A i \in Positions, x \in NonFinite : Passed(Rerun(Replaced(i, x)))

\* C22, amended: check_is_finite raises a ValueError iff an element is not
\* finite; the checks of the type never fail for a non-finite value; the
\* checks of the values compare it as IEEE 754 does: NaN fails
\* check_is_greater_than, check_is_less_than, check_is_in_range,
\* check_is_integerlike (strict=False) and, next to another element,
\* check_is_sorted; an infinite value is integer-like and fails
\* check_is_in_range when the bound it passes is finite
C22_NonFiniteIsCompared ==
    /\ FiniteIffNoneIsNonFinite
    /\ (op \in TypeChecks /\ HoldsFloats /\ Passed(result)) =>
           \A i \in Positions, x \in NonFinite : Passed(Rerun(Replaced(i, x)))
    /\ (op \in ValueChecks /\ HoldsFloats /\ Passed(result)) =>
           \A i \in Positions :
               /\ op \in {"check_is_greater_than", "check_is_less_than", "check_is_in_range"} =>
                      Rerun(Replaced(i, NaN)).kind = "ValueError"
               /\ op = "check_is_integerlike" =>
                      /\ Rerun(Replaced(i, NaN)).kind = "ValueError"
                      /\ Passed(Rerun(Replaced(i, PosInf)))
                      /\ Passed(Rerun(Replaced(i, NegInf)))
               /\ (op = "check_is_sorted" /\ SortedNdim = 1 /\ AxisIsValid) =>
                      (Passed(Rerun(Replaced(i, NaN))) <=> Len(subject.data) < 2)
               /\ (op = "check_is_in_range" /\ RangeArray.data[2] \notin NonFinite) =>
                      Rerun(Replaced(i, PosInf)).kind = "ValueError"

\* a sorted array of finite elements is no longer sorted with a NaN in it
C22_Witness ==
    /\ op = "check_is_sorted"
    /\ HoldsFloats
    /\ Len(subject.data) >= 2
    /\ \A i \in Positions : subject.data[i] \notin NonFinite
    /\ Passed(result)
    /\ ~Passed(Rerun(Replaced(1, NaN)))

====
